---- MODULE Spec2Model ----
(***************************************************************************)
(* Model of the extendedRLM feature-extraction core                        *)
(* (src/convex_hull.py, src/image.py).                                     *)
(*                                                                         *)
(* A binary mask obj is a sequence of rows, obj[x+1][y+1] standing for the *)
(* Python obj[x][y]; len(obj) is Len(obj), len(obj[0]) is Len(obj[1]).     *)
(* A point is a pair <<x, y>>.  A Python list is a sequence whose Python   *)
(* index k is position k+1; a negative Python index k is position          *)
(* Len + k + 1, and an index outside -Len .. Len-1 raises IndexError.      *)
(***************************************************************************)
EXTENDS Integers, Sequences, FiniteSets, TLC

VARIABLES
    obj,        \* the mask convex_hull is computing the hull of
    pc,         \* position in convex_hull
    contour,    \* object_contour(obj)
    min_pix,    \* get_corner_pixel(contour)
    ch,         \* the list being pruned
    i,          \* the cursor of the pruning loop
    objects,    \* the two masks of the pair being encoded
    ppc,        \* position in the encoding of the pair
    centre,     \* the centre point (x, y) given to lines_diameters
    step,       \* the angular step given to lines_diameters, in degrees
    radius,     \* radial_line_model_radius(objects, x, y)
    lines,      \* the half-lines
    diameters,  \* the diameters
    histObj1,   \* RLM of objects[0]: one <<count, length>> per half-line
    histObj2,   \* RLM of objects[1]: one <<count, length>> per half-line
    force_type, \* the force type given to forces
    force,      \* the force histogram
    cpc,        \* position in center_point
    hulls,      \* the densified hull of each mask
    pt1,        \* barycentre(objects[0])
    pt2,        \* barycentre(objects[1])
    lin,        \* the rasterized segment from pt1 to pt2
    walked,     \* how many points of lin the loop has taken
    it1,        \* the hull of objects[0] has been touched
    it2,        \* the hull of objects[1] has been touched
    fp1,        \* the touch point of the hull of objects[0], or None
    fp2,        \* the touch point of the hull of objects[1], or None
    center      \* the point center_point returns

hullVars == <<obj, pc, contour, min_pix, ch, i>>

pairVars == <<objects, ppc, centre, step, radius, lines, diameters,
              histObj1, histObj2, force_type, force>>

centreVars == <<cpc, hulls, pt1, pt2, lin, walked, it1, it2, fp1, fp2, center>>

vars == <<hullVars, pairVars, centreVars>>

\* Largest width and height of the masks given to convex_hull.
MaxDim == 3
\* Largest side of the all-true square masks given to convex_hull.
MaxFull == 5

\* min_pix = (9999, 9999) before any contour pixel is seen.
Sentinel == 9999

Masks(w, h) == [1..w -> [1..h -> BOOLEAN]]

AllTrue(n) == [x \in 1..n |-> [y \in 1..n |-> TRUE]]

At(o, x, y) == o[x + 1][y + 1]

----------------------------------------------------------------------------
(* convex_hull.py: contour                                                 *)

\* "True", "False", or "IndexError" when obj[x][y + 1] is read past the row.
isContour(o, x, y) ==
    IF x < 0 \/ y < 0 \/ x >= Len(o) \/ y >= Len(o[1]) \/ ~At(o, x, y)
    THEN "False"
    ELSE IF x = 0 \/ y = 0 \/ x = Len(o) - 1 \/ y = Len(o) - 1
    THEN "True"
    ELSE IF ~At(o, x - 1, y) THEN "True"
    ELSE IF ~At(o, x + 1, y) THEN "True"
    ELSE IF ~At(o, x, y - 1) THEN "True"
    ELSE IF y + 1 >= Len(o[1]) THEN "IndexError"
    ELSE IF ~At(o, x, y + 1) THEN "True"
    ELSE "False"

\* The double loop of object_contour from its k-th iteration on:
\* i = k \div len(obj), j = k % len(obj), both in range(len(obj)).
RECURSIVE ContourScan(_, _, _)
ContourScan(o, k, cont) ==
    IF k >= Len(o) * Len(o)
    THEN [err |-> FALSE, cont |-> cont]
    ELSE LET x == k \div Len(o)
             y == k % Len(o)
             c == isContour(o, x, y)
         IN  IF c = "IndexError" THEN [err |-> TRUE, cont |-> cont]
             ELSE ContourScan(o, k + 1,
                              IF c = "True" THEN Append(cont, <<x, y>>) ELSE cont)

object_contour(o) == ContourScan(o, 0, <<>>)

RECURSIVE CornerScan(_, _, _)
CornerScan(cont, k, m) ==
    IF k > Len(cont) THEN m
    ELSE LET pixel == cont[k]
         IN  CornerScan(cont, k + 1,
                        IF pixel[1] < m[1] \/ (pixel[1] = m[1] /\ pixel[2] < m[2])
                        THEN pixel ELSE m)

get_corner_pixel(cont) == CornerScan(cont, 1, <<Sentinel, Sentinel>>)

----------------------------------------------------------------------------
(* convex_hull.py: slope sort and power                                    *)

\* The slope as a fraction <<numerator, denominator>> with denominator > 0;
\* two such quotients of small integers compare as floats exactly as the
\* fractions do.
compute_slope(p1, p2) ==
    IF p2[1] - p1[1] = 0 THEN <<1, 1>>
    ELSE IF p2[1] - p1[1] > 0 THEN <<p2[2] - p1[2], p2[1] - p1[1]>>
    ELSE <<p1[2] - p2[2], p1[1] - p2[1]>>

SlopeLess(a, b) == a[1] * b[2] < b[1] * a[2]

\* s with p put after the last element whose key is not greater than p's.
RECURSIVE InsertBySlope(_, _, _)
InsertBySlope(minpix, s, p) ==
    IF s = <<>> THEN <<p>>
    ELSE IF SlopeLess(compute_slope(minpix, p), compute_slope(minpix, s[Len(s)]))
    THEN Append(InsertBySlope(minpix, SubSeq(s, 1, Len(s) - 1), p), s[Len(s)])
    ELSE Append(s, p)

\* sorted() is stable: equal keys keep the order of contour.
RECURSIVE SortScan(_, _, _, _)
SortScan(minpix, cont, k, acc) ==
    IF k > Len(cont) THEN acc
    ELSE SortScan(minpix, cont, k + 1, InsertBySlope(minpix, acc, cont[k]))

sortby_slope(minpix, cont) == SortScan(minpix, cont, 1, <<>>)

compute_power(line_p1, line_p2, point) ==
    LET dy == line_p2[2] - line_p1[2]
        dx == line_p2[1] - line_p1[1]
    IN  dy * (point[1] - line_p1[1]) - dx * (point[2] - line_p1[2])

----------------------------------------------------------------------------
(* Python list indexing                                                    *)

PyInRange(s, k) == k < Len(s) /\ k >= 0 - Len(s)

PyGet(s, k) == IF k >= 0 THEN s[k + 1] ELSE s[Len(s) + k + 1]

PyPop(s, k) ==
    LET p == IF k >= 0 THEN k + 1 ELSE Len(s) + k + 1
    IN  SubSeq(s, 1, p - 1) \o SubSeq(s, p + 1, Len(s))

----------------------------------------------------------------------------
(* convex_hull.py: convex_hull, one action per step of its loop            *)

\* No pair is being encoded.
PairIdle ==
    /\ objects = <<>>
    /\ ppc = "idle"
    /\ centre = <<0, 0>>
    /\ step = 0
    /\ radius = 0
    /\ lines = <<>>
    /\ diameters = <<>>
    /\ histObj1 = <<>>
    /\ histObj2 = <<>>
    /\ force_type = 0
    /\ force = <<>>

\* Python's None.
None == <<>>

\* center_point is not running.
CentreIdle ==
    /\ cpc = "idle"
    /\ hulls = <<>>
    /\ pt1 = None
    /\ pt2 = None
    /\ lin = <<>>
    /\ walked = 0
    /\ it1 = FALSE
    /\ it2 = FALSE
    /\ fp1 = None
    /\ fp2 = None
    /\ center = None

\* ch[i - 1], ch[i + 1] and ch[i] can all be read.
TripleReadable(s, k) ==
    PyInRange(s, k - 1) /\ PyInRange(s, k + 1) /\ PyInRange(s, k)

power(s, k) == compute_power(PyGet(s, k - 1), PyGet(s, k + 1), PyGet(s, k))

HullInit ==
    /\ obj \in (UNION {Masks(w, h) : w \in 1..MaxDim, h \in 1..MaxDim})
                \cup {AllTrue(n) : n \in 1..MaxFull}
    /\ pc = "start"
    /\ contour = <<>>
    /\ min_pix = <<Sentinel, Sentinel>>
    /\ ch = <<>>
    /\ i = 1
    /\ PairIdle
    /\ CentreIdle

\* Lines 102-106: contour, pivot, sort, cursor at 1.
HullEnter ==
    /\ pc = "start"
    /\ LET r == object_contour(obj)
       IN  IF r.err
           THEN /\ pc' = "contour_IndexError"
                /\ contour' = r.cont
                /\ UNCHANGED <<min_pix, ch>>
           ELSE /\ pc' = "prune"
                /\ contour' = r.cont
                /\ min_pix' = get_corner_pixel(r.cont)
                /\ ch' = sortby_slope(get_corner_pixel(r.cont), r.cont)
    /\ i' = 1
    /\ UNCHANGED obj
    /\ UNCHANGED <<pairVars, centreVars>>

\* Lines 107-110: power >= 0, the cursor advances.
PruneAdvance ==
    /\ pc = "prune"
    /\ i < Len(ch) - 1
    /\ TripleReadable(ch, i)
    /\ power(ch, i) >= 0
    /\ i' = i + 1
    /\ UNCHANGED <<obj, pc, contour, min_pix, ch>>
    /\ UNCHANGED <<pairVars, centreVars>>

\* Lines 111-113: power < 0, the candidate is popped and the cursor steps back.
PruneRemove ==
    /\ pc = "prune"
    /\ i < Len(ch) - 1
    /\ TripleReadable(ch, i)
    /\ power(ch, i) < 0
    /\ ch' = PyPop(ch, i)
    /\ i' = i - 1
    /\ UNCHANGED <<obj, pc, contour, min_pix>>
    /\ UNCHANGED <<pairVars, centreVars>>

\* Line 108 raises IndexError.
PruneIndexError ==
    /\ pc = "prune"
    /\ i < Len(ch) - 1
    /\ ~TripleReadable(ch, i)
    /\ pc' = "prune_IndexError"
    /\ UNCHANGED <<obj, contour, min_pix, ch, i>>
    /\ UNCHANGED <<pairVars, centreVars>>

\* Line 114: the loop condition fails and (min_pix, ch) is returned.
HullReturn ==
    /\ pc = "prune"
    /\ ~(i < Len(ch) - 1)
    /\ pc' = "done"
    /\ UNCHANGED <<obj, contour, min_pix, ch, i>>
    /\ UNCHANGED <<pairVars, centreVars>>

HullNext ==
    \/ HullEnter
    \/ PruneAdvance
    \/ PruneRemove
    \/ PruneIndexError
    \/ HullReturn

SpecHull == HullInit /\ [][HullNext]_vars

----------------------------------------------------------------------------
(* image.py: the masks of a pair                                           *)

\* Largest width and height of the images of the encoded pairs.
PairDim == 2

\* The angular steps, in degrees, the callers convert to radians.
Steps == {45, 90, 180, 360, 720}

\* The force types given to forces.
ForceTypes == {0, 2}

\* bbox = <<x_min, x_max, y_min, y_max>>.
bbox_value(bbox, x, y) ==
    bbox[3] <= y /\ y <= bbox[4] /\ bbox[1] <= x /\ x <= bbox[2]

\* [[bbox_value(o, x, y) for y in range(size_x)] for x in range(size_y)]
BoxImage(bbox, size_x, size_y) ==
    [x \in 1..size_y |-> [y \in 1..size_x |-> bbox_value(bbox, x - 1, y - 1)]]

BBoxes(size_x, size_y) ==
    (0..(size_y - 1)) \X (0..(size_y - 1)) \X (0..(size_x - 1)) \X (0..(size_x - 1))

\* point_overlap without the tests 0 <= pt[0] and 0 <= pt[1]: a negative
\* index reads the list from its end (one below -len, which raises, is not
\* counted).
point_overlap_no_lower_bound(pt, o) ==
    IF pt[1] < Len(o) /\ pt[2] < Len(o[1])
    THEN /\ pt[1] >= 0 - Len(o)
         /\ pt[2] >= 0 - Len(o[1])
         /\ o[IF pt[1] >= 0 THEN pt[1] + 1 ELSE Len(o) + pt[1] + 1]
             [IF pt[2] >= 0 THEN pt[2] + 1 ELSE Len(o[1]) + pt[2] + 1]
    ELSE FALSE

point_overlap(pt, o) ==
    IF 0 <= pt[1] /\ pt[1] < Len(o) /\ 0 <= pt[2] /\ pt[2] < Len(o[1])
    THEN At(o, pt[1], pt[2])
    ELSE FALSE

----------------------------------------------------------------------------
(* The line rasterizer (pybresenham.line, imported as bline)               *)

Abs(n) == IF n < 0 THEN 0 - n ELSE n

Reverse(s) == [k \in 1..Len(s) |-> s[Len(s) + 1 - k]]

RECURSIVE BresScan(_, _, _, _, _, _, _, _, _)
BresScan(x, x2, y, error, deltax, deltay, ystep, isSteep, acc) ==
    IF x > x2 THEN acc
    ELSE LET pt == IF isSteep THEN <<y, x>> ELSE <<x, y>>
             e  == error - deltay
         IN  IF e < 0
             THEN BresScan(x + 1, x2, y + ystep, e + deltax, deltax, deltay,
                           ystep, isSteep, Append(acc, pt))
             ELSE BresScan(x + 1, x2, y, e, deltax, deltay,
                           ystep, isSteep, Append(acc, pt))

\* The points from (x1, y1) to (x2, y2), both included, in that order.
bline(x1, y1, x2, y2) ==
    LET isSteep == Abs(y2 - y1) > Abs(x2 - x1)
        a1 == IF isSteep THEN y1 ELSE x1
        b1 == IF isSteep THEN x1 ELSE y1
        a2 == IF isSteep THEN y2 ELSE x2
        b2 == IF isSteep THEN x2 ELSE y2
        rev == a1 > a2
        s1 == IF rev THEN a2 ELSE a1
        t1 == IF rev THEN b2 ELSE b1
        s2 == IF rev THEN a1 ELSE a2
        t2 == IF rev THEN b1 ELSE b2
        pts == BresScan(s1, s2, t1, (s2 - s1) \div 2, s2 - s1, Abs(t2 - t1),
                        IF t1 < t2 THEN 1 ELSE -1, isSteep, <<>>)
    IN  IF rev THEN Reverse(pts) ELSE pts

----------------------------------------------------------------------------
(* image.py: radius                                                        *)

manhattan(x1, y1, x2, y2) == Abs(x2 - x1) + Abs(y2 - y1)

SetMin(S) == CHOOSE m \in S : \A n \in S : m <= n
SetMax(S) == CHOOSE m \in S : \A n \in S : m >= n

TruePixels(o) ==
    {p \in (0..(Len(o) - 1)) \X (0..(Len(o[1]) - 1)) : At(o, p[1], p[2])}

\* The sum of coordinate c over the pixels of S (sum(x_pixels), sum(y_pixels)).
RECURSIVE PixelSum(_, _)
PixelSum(S, c) ==
    IF S = {} THEN 0
    ELSE LET p == CHOOSE q \in S : TRUE IN p[c] + PixelSum(S \ {p}, c)

CoordSum(o, c) == PixelSum(TruePixels(o), c)

\* int(sum / len) of both coordinates; len = 0 raises ZeroDivisionError.
barycentre(o) ==
    IF TruePixels(o) = {}
    THEN [err |-> TRUE, pt |-> <<0, 0>>]
    ELSE [err |-> FALSE,
          pt |-> <<CoordSum(o, 1) \div Cardinality(TruePixels(o)),
                   CoordSum(o, 2) \div Cardinality(TruePixels(o))>>]

\* Lines 122-131: [minX, maxX, minY, maxY], folded from maxX = maxY = 0 and
\* minX = minY = len(obj).
bounding_box(o) ==
    LET xs == {p[1] : p \in TruePixels(o)}
        ys == {p[2] : p \in TruePixels(o)}
    IN  <<SetMin(xs \cup {Len(o)}), SetMax(xs \cup {0}),
          SetMin(ys \cup {Len(o)}), SetMax(ys \cup {0})>>

\* The corners in the order of the loops of lines 135-137.
BoxCorners(bb) ==
    <<<<bb[1], bb[3]>>, <<bb[1], bb[4]>>, <<bb[2], bb[3]>>, <<bb[2], bb[4]>>>>

\* Lines 132-141 from the k-th corner on: far = <<x_max, y_max>>.
RECURSIVE FarthestScan(_, _, _, _, _, _)
FarthestScan(corners, k, x, y, o, far) ==
    IF k > Len(corners) THEN far
    ELSE LET c == corners[k]
             m == manhattan(x, y, c[1], c[2])
         IN  IF m > o
             THEN FarthestScan(corners, k + 1, x, y, m, c)
             ELSE FarthestScan(corners, k + 1, x, y, o, far)

\* int(math.sqrt(n)) for n >= 0.
ISqrt(n) == CHOOSE k \in 0..n : k * k <= n /\ (k + 1) * (k + 1) > n

SqDist(x1, y1, x2, y2) == (x2 - x1) * (x2 - x1) + (y2 - y1) * (y2 - y1)

radial_line_model_radius(objs, x, y) ==
    LET corners == BoxCorners(bounding_box(objs[1])) \o BoxCorners(bounding_box(objs[2]))
        far == FarthestScan(corners, 1, x, y, 0, <<0, 0>>)
    IN  ISqrt(SqDist(x, y, far[1], far[2]))

----------------------------------------------------------------------------
(* image.py: half-lines and diameters                                      *)

\* int(math.pi * 2 / step) for step = deg * math.pi / 180.
NumSamples(deg) == 360 \div deg

\* round(r * cos(45 degrees)): the k >= 0 with (2k - 1)^2 <= 2 r^2 < (2k + 1)^2.
RoundDiag(r) ==
    CHOOSE k \in 0..r :
        /\ (k = 0 \/ (2 * k - 1) * (2 * k - 1) <= 2 * r * r)
        /\ (2 * k + 1) * (2 * k + 1) > 2 * r * r

\* The signs of cos and sin of -k * 45 degrees.
CosSign(k) == <<1, 1, 0, -1, -1, -1, 0, 1>>[(k % 8) + 1]
SinSign(k) == <<0, -1, -1, -1, 0, 1, 1, 1>>[(k % 8) + 1]

\* (round(x + r cos(-k * 45 deg)), round(y + r sin(-k * 45 deg))).
Perimeter(x, y, r, k) ==
    LET m == IF k % 2 = 1 THEN RoundDiag(r) ELSE r
    IN  <<x + CosSign(k) * m, y + SinSign(k) * m>>

\* Lines 91-95 for sample n: the half-line and the diameter.
HalfLine(x, y, r, deg, n) ==
    LET point == Perimeter(x, y, r, n * (deg \div 45))
    IN  bline(x, y, point[1], point[2])

Diameter(x, y, r, deg, n) ==
    LET point == Perimeter(x, y, r, n * (deg \div 45))
        point_2 == Perimeter(x, y, r, n * (deg \div 45) + 4)
    IN  bline(point[1], point[2], point_2[1], point_2[2])

lines_of(x, y, r, deg) ==
    [n \in 1..NumSamples(deg) |-> HalfLine(x, y, r, deg, n - 1)]

\* lines_diameters returning z / 2 diameters for z half-lines.
diameters_of_half(x, y, r, deg) ==
    [n \in 1..(NumSamples(deg) \div 2) |-> Diameter(x, y, r, deg, n - 1)]

diameters_of(x, y, r, deg) ==
    [n \in 1..NumSamples(deg) |-> Diameter(x, y, r, deg, n - 1)]

----------------------------------------------------------------------------
(* image.py: the histograms                                                *)

OverlapCount(line, o) ==
    Cardinality({k \in 1..Len(line) : point_overlap(line[k], o)})

\* One value per half-line, count / length kept as <<count, length>>.
rlm_of(lns, o) == [n \in 1..Len(lns) |-> <<OverlapCount(lns[n], o), Len(lns[n])>>]

\* The labels with objects[0] tested first.
travel_label_first_is_A(pt, objs) ==
    IF 0 <= pt[1] /\ pt[1] < Len(objs[1]) /\ 0 <= pt[2] /\ pt[2] < Len(objs[1][1])
       /\ At(objs[1], pt[1], pt[2])
    THEN "A"
    ELSE IF 0 <= pt[1] /\ pt[1] < Len(objs[2]) /\ 0 <= pt[2] /\ pt[2] < Len(objs[2][1])
            /\ At(objs[2], pt[1], pt[2])
    THEN "B"
    ELSE "_"

\* Lines 157-163: the label of a point of a diameter.
travel_label(pt, objs) ==
    IF 0 <= pt[1] /\ pt[1] < Len(objs[2]) /\ 0 <= pt[2] /\ pt[2] < Len(objs[2][1])
       /\ At(objs[2], pt[1], pt[2])
    THEN "A"
    ELSE IF 0 <= pt[1] /\ pt[1] < Len(objs[1]) /\ 0 <= pt[2] /\ pt[2] < Len(objs[1][1])
            /\ At(objs[1], pt[1], pt[2])
    THEN "B"
    ELSE "_"

line_travel(line, objs) == [k \in 1..Len(line) |-> travel_label(line[k], objs)]

\* int(math.dist(a, b)).
IntDist(a, b) == ISqrt(SqDist(a[1], a[2], b[1], b[2]))

\* Lines 169-177: the distances accumulated for one diameter, in the order
\* of the loops (p outer, r from p on).
\* The loops with the inner test fline[r] != '_' in place of fline[r] == 'B':
\* the position p itself, at distance 0, then counts.
RECURSIVE PairDists_any_object(_, _, _, _, _)
PairDists_any_object(line, fline, p, r, acc) ==
    IF p > Len(fline) THEN acc
    ELSE IF fline[p] # "A" \/ r > Len(fline)
    THEN PairDists_any_object(line, fline, p + 1, p + 1, acc)
    ELSE PairDists_any_object(line, fline, p, r + 1,
                   IF fline[r] # "_" THEN Append(acc, IntDist(line[p], line[r]))
                   ELSE acc)

RECURSIVE PairDists(_, _, _, _, _)
PairDists(line, fline, p, r, acc) ==
    IF p > Len(fline) THEN acc
    ELSE IF fline[p] # "A" \/ r > Len(fline)
    THEN PairDists(line, fline, p + 1, p + 1, acc)
    ELSE PairDists(line, fline, p, r + 1,
                   IF fline[r] = "B" THEN Append(acc, IntDist(line[p], line[r]))
                   ELSE acc)

RECURSIVE SeqSum(_)
SeqSum(s) == IF s = <<>> THEN 0 ELSE s[1] + SeqSum(Tail(s))

\* Force type 0: the sum of the distances of one diameter.
force_of(line, objs) ==
    SeqSum(PairDists(line, line_travel(line, objs), 1, 1, <<>>))

\* Any other force type adds log((d + 1)^2 / (d (d + 2))) per distance d:
\* the sum is kept as the sequence of its d, and d = 0 divides by zero.
log_terms_of(line, objs) == PairDists(line, line_travel(line, objs), 1, 1, <<>>)

HasZero(s) == \E k \in 1..Len(s) : s[k] = 0

----------------------------------------------------------------------------
(* image.py: encoding one pair, as SpatialSense_learning lines 259-265 do  *)

PairInit ==
    /\ \E size_x \in 1..PairDim, size_y \in 1..PairDim :
       \E sub \in BBoxes(size_x, size_y), o \in BBoxes(size_x, size_y) :
           objects = <<BoxImage(sub, size_x, size_y), BoxImage(o, size_x, size_y)>>
    /\ ppc = "start"
    /\ centre = <<0, 0>>
    /\ step = 0
    /\ radius = 0
    /\ lines = <<>>
    /\ diameters = <<>>
    /\ histObj1 = <<>>
    /\ histObj2 = <<>>
    /\ force_type = 0
    /\ force = <<>>
    /\ obj = <<>>
    /\ pc = "idle"
    /\ contour = <<>>
    /\ min_pix = <<Sentinel, Sentinel>>
    /\ ch = <<>>
    /\ i = 1
    /\ CentreIdle

\* lines_diameters(objects, x, y, step), lines 88-96.
LinesDiameters ==
    /\ ppc = "start"
    /\ \E x \in 0..(Len(objects[1]) - 1), y \in 0..(Len(objects[1][1]) - 1), deg \in Steps :
        LET r == radial_line_model_radius(objects, x, y)
        IN  /\ centre' = <<x, y>>
            /\ step' = deg
            /\ radius' = r
            /\ lines' = lines_of(x, y, r, deg)
            /\ diameters' = diameters_of(x, y, r, deg)
    /\ ppc' = "sampled"
    /\ UNCHANGED <<objects, histObj1, histObj2, force_type, force>>
    /\ UNCHANGED <<hullVars, centreVars>>

\* radial_line_model(lines, objects), lines 190-196.
RadialLineModel ==
    /\ ppc = "sampled"
    /\ histObj1' = rlm_of(lines, objects[1])
    /\ histObj2' = rlm_of(lines, objects[2])
    /\ ppc' = "rlm"
    /\ UNCHANGED <<objects, centre, step, radius, lines, diameters, force_type, force>>
    /\ UNCHANGED <<hullVars, centreVars>>

\* forces(objects, diameters, 0), lines 154-179.
ForcesLinear ==
    /\ ppc = "rlm"
    /\ force_type' = 0
    /\ force' = [n \in 1..Len(diameters) |-> force_of(diameters[n], objects)]
    /\ ppc' = "done"
    /\ UNCHANGED <<objects, centre, step, radius, lines, diameters, histObj1, histObj2>>
    /\ UNCHANGED <<hullVars, centreVars>>

\* forces(objects, diameters, force_type) for a force type other than 0.
ForcesLog ==
    /\ ppc = "rlm"
    /\ \E ft \in ForceTypes \ {0} : force_type' = ft
    /\ LET terms == [n \in 1..Len(diameters) |-> log_terms_of(diameters[n], objects)]
       IN  IF \E n \in 1..Len(diameters) : HasZero(terms[n])
           THEN /\ ppc' = "ZeroDivisionError"
                /\ UNCHANGED force
           ELSE /\ ppc' = "done"
                /\ force' = terms
    /\ UNCHANGED <<objects, centre, step, radius, lines, diameters, histObj1, histObj2>>
    /\ UNCHANGED <<hullVars, centreVars>>

PairNext ==
    \/ LinesDiameters
    \/ RadialLineModel
    \/ ForcesLinear
    \/ ForcesLog

SpecPair == PairInit /\ [][PairNext]_vars

----------------------------------------------------------------------------
(* convex_hull.py: convex_hull run to its end, connected8_check            *)

\* The loop of lines 107-113 on list s from cursor k, run to its end.
RECURSIVE PruneRun(_, _)
PruneRun(s, k) ==
    IF ~(k < Len(s) - 1) THEN [err |-> FALSE, hull |-> s]
    ELSE IF ~TripleReadable(s, k) THEN [err |-> TRUE, hull |-> s]
    ELSE IF power(s, k) >= 0 THEN PruneRun(s, k + 1)
    ELSE PruneRun(PyPop(s, k), k - 1)

\* convex_hull(obj): err when object_contour or the loop raises IndexError.
convex_hull(o) ==
    LET r == object_contour(o)
    IN  IF r.err
        THEN [err |-> TRUE, pivot |-> <<Sentinel, Sentinel>>, hull |-> <<>>]
        ELSE LET run == PruneRun(sortby_slope(get_corner_pixel(r.cont), r.cont), 1)
             IN  [err |-> run.err, pivot |-> get_corner_pixel(r.cont), hull |-> run.hull]

\* The nine entries of line 163: (x, y - 1) twice, (x, y + 1) absent.
matrix(x, y) ==
    << <<x + 1, y + 1>>, <<x + 1, y>>, <<x + 1, y - 1>>, <<x, y - 1>>, <<x, y>>,
       <<x, y - 1>>, <<x - 1, y + 1>>, <<x - 1, y>>, <<x - 1, y - 1>> >>

connected8_check(x, y, obj_list) ==
    \E m \in 1..Len(matrix(x, y)), k \in 1..Len(obj_list) :
        matrix(x, y)[m] = obj_list[k]

----------------------------------------------------------------------------
(* image.py: center_point                                                  *)

\* Largest side of the square images whose first or second box is the
\* whole image.
CentreFull == 7

\* Lines 48-51: the edges of c_hull, each closed on the next vertex and the
\* last on the first, rasterized and concatenated from Python index p on.
RECURSIVE densify(_, _, _)
densify(c_hull, p, hull) ==
    IF p >= Len(c_hull) THEN hull
    ELSE LET a == c_hull[p + 1]
             b == c_hull[((p + 1) % Len(c_hull)) + 1]
         IN  densify(c_hull, p + 1, hull \o bline(a[1], a[2], b[1], b[2]))

\* Lines 61-66 without "and not it": every touching point is recorded.
first_touch_overwritten(pt, hull, it, fp) ==
    IF connected8_check(pt[1], pt[2], hull)
    THEN [it |-> TRUE, fp |-> pt]
    ELSE [it |-> it, fp |-> fp]

\* Lines 61-63 for hull 0, lines 64-66 for hull 1.
first_touch(pt, hull, it, fp) ==
    IF connected8_check(pt[1], pt[2], hull) /\ ~it
    THEN [it |-> TRUE, fp |-> pt]
    ELSE [it |-> it, fp |-> fp]

\* int(n / 2): the quotient truncated towards zero.
int_half(n) == IF n >= 0 THEN n \div 2 ELSE 0 - ((0 - n) \div 2)

\* The pairs SpatialSense_learning builds, and on square images those with
\* one box covering the whole image.
CentreInit ==
    /\ \/ \E size_x \in 1..PairDim, size_y \in 1..PairDim :
          \E sub \in BBoxes(size_x, size_y), o \in BBoxes(size_x, size_y) :
              objects = <<BoxImage(sub, size_x, size_y), BoxImage(o, size_x, size_y)>>
       \/ \E n \in 1..CentreFull : \E b \in BBoxes(n, n) :
              \/ objects = <<AllTrue(n), BoxImage(b, n, n)>>
              \/ objects = <<BoxImage(b, n, n), AllTrue(n)>>
    /\ cpc = "start"
    /\ hulls = <<>>
    /\ pt1 = None
    /\ pt2 = None
    /\ lin = <<>>
    /\ walked = 0
    /\ it1 = FALSE
    /\ it2 = FALSE
    /\ fp1 = None
    /\ fp2 = None
    /\ center = None
    /\ ppc = "idle"
    /\ centre = <<0, 0>>
    /\ step = 0
    /\ radius = 0
    /\ lines = <<>>
    /\ diameters = <<>>
    /\ histObj1 = <<>>
    /\ histObj2 = <<>>
    /\ force_type = 0
    /\ force = <<>>
    /\ obj = <<>>
    /\ pc = "idle"
    /\ contour = <<>>
    /\ min_pix = <<Sentinel, Sentinel>>
    /\ ch = <<>>
    /\ i = 1

\* Lines 44-59: the two densified hulls, the two barycentres, the segment.
CentreEnter ==
    /\ cpc = "start"
    /\ LET h1 == convex_hull(objects[1])
           h2 == convex_hull(objects[2])
           b1 == barycentre(objects[1])
           b2 == barycentre(objects[2])
       IN  IF h1.err \/ h2.err
           THEN /\ cpc' = "IndexError"
                /\ UNCHANGED <<hulls, pt1, pt2, lin>>
           ELSE IF b1.err \/ b2.err
           THEN /\ cpc' = "ZeroDivisionError"
                /\ hulls' = <<densify(h1.hull, 0, <<>>), densify(h2.hull, 0, <<>>)>>
                /\ pt1' = IF b1.err THEN pt1 ELSE b1.pt
                /\ UNCHANGED <<pt2, lin>>
           ELSE /\ cpc' = "walk"
                /\ hulls' = <<densify(h1.hull, 0, <<>>), densify(h2.hull, 0, <<>>)>>
                /\ pt1' = b1.pt
                /\ pt2' = b2.pt
                /\ lin' = bline(b1.pt[1], b1.pt[2], b2.pt[1], b2.pt[2])
    /\ UNCHANGED <<walked, it1, it2, fp1, fp2, center>>
    /\ UNCHANGED <<hullVars, pairVars>>

\* Lines 60-68: one iteration of the loop, on the next point of lin.
WalkStep ==
    /\ cpc = "walk"
    /\ walked < Len(lin)
    /\ LET pt == lin[walked + 1]
           r1 == first_touch(pt, hulls[1], it1, fp1)
           r2 == first_touch(pt, hulls[2], it2, fp2)
       IN  /\ it1' = r1.it
           /\ fp1' = r1.fp
           /\ it2' = r2.it
           /\ fp2' = r2.fp
           /\ cpc' = IF r1.it /\ r2.it THEN "after" ELSE "walk"
    /\ walked' = walked + 1
    /\ UNCHANGED <<hulls, pt1, pt2, lin, center>>
    /\ UNCHANGED <<hullVars, pairVars>>

\* Line 60: lin is exhausted.
WalkEnd ==
    /\ cpc = "walk"
    /\ walked = Len(lin)
    /\ cpc' = "after"
    /\ UNCHANGED <<hulls, pt1, pt2, lin, walked, it1, it2, fp1, fp2, center>>
    /\ UNCHANGED <<hullVars, pairVars>>

\* Lines 70-75: the barycentres stand in for the missing touch points and
\* the midpoint is returned.
CentreReturn ==
    /\ cpc = "after"
    /\ LET a == IF fp1 = None THEN pt1 ELSE fp1
           b == IF fp2 = None THEN pt2 ELSE fp2
       IN  /\ fp1' = a
           /\ fp2' = b
           /\ center' = <<int_half(a[1] + b[1]), int_half(a[2] + b[2])>>
    /\ cpc' = "done"
    /\ UNCHANGED <<hulls, pt1, pt2, lin, walked, it1, it2>>
    /\ UNCHANGED <<hullVars, pairVars>>

CentreNext ==
    \/ CentreEnter
    \/ WalkStep
    \/ WalkEnd
    \/ CentreReturn

SpecCentre == CentreInit /\ [][CentreNext]_vars

----------------------------------------------------------------------------
(* Properties of object_contour and convex_hull                            *)

\* The boundary predicate of the specification: a true pixel on the grid's
\* outer border, or with a false orthogonal neighbour.
IsBoundary(o, x, y) ==
    /\ At(o, x, y)
    /\ \/ x = 0
       \/ y = 0
       \/ x = Len(o) - 1
       \/ y = Len(o[1]) - 1
       \/ ~At(o, x - 1, y)
       \/ ~At(o, x + 1, y)
       \/ ~At(o, x, y - 1)
       \/ ~At(o, x, y + 1)

Boundary(o) ==
    {p \in (0..(Len(o) - 1)) \X (0..(Len(o[1]) - 1)) : IsBoundary(o, p[1], p[2])}

Range(s) == {s[k] : k \in 1..Len(s)}

\* C1: for every W x H mask, square or not, object_contour raises no index
\* error and returns exactly the boundary pixels, each once.
C1_ContourExact ==
    pc # "start" =>
        /\ pc # "contour_IndexError"
        /\ Range(contour) = Boundary(obj)
        /\ Len(contour) = Cardinality(Boundary(obj))

\* C2: for the 5 x 5 all-true mask the contour is the 16 border cells, the
\* pivot is (0,0) and the hull is exactly the four corners.
C2_FullMaskHull ==
    (obj = AllTrue(5) /\ pc = "done") =>
        /\ Len(contour) = 16
        /\ min_pix = <<0, 0>>
        /\ Len(ch) = 4
        /\ Range(ch) = {<<0, 0>>, <<0, 4>>, <<4, 0>>, <<4, 4>>}

\* The cyclic neighbours of position k of a sequence of length n.
CycPrev(n, k) == IF k = 1 THEN n ELSE k - 1
CycNext(n, k) == IF k = n THEN 1 ELSE k + 1

\* C3: the returned hull of a non-empty contour is locally convex: every
\* three cyclically consecutive vertices (a, b, c), the wrap-around triples
\* included, have power >= 0.
C3_LocallyConvex ==
    (pc = "done" /\ contour # <<>>) =>
        \A k \in 1..Len(ch) :
            compute_power(ch[CycPrev(Len(ch), k)], ch[CycNext(Len(ch), k)], ch[k]) >= 0

\* C9: whenever the pruning loop examines a triple, the cursor is >= 1, so
\* ch[i - 1] never wraps around to the end of the list.
C9_CursorAtLeastOne ==
    (pc = "prune" /\ i < Len(ch) - 1) => i >= 1

\* C10: the pruning pass never reads or pops an index outside the current
\* list, and so always reaches the return.
C10_PruneInRange ==
    /\ pc # "prune_IndexError"
    /\ (pc = "prune" /\ i < Len(ch) - 1) => TripleReadable(ch, i)

----------------------------------------------------------------------------
(* Properties of the radius and of the histograms                          *)

NonEmpty(o) == TruePixels(o) # {}

\* The four corners of the axis-aligned bounding box of the true pixels.
TrueCorners(o) ==
    LET xs == {p[1] : p \in TruePixels(o)}
        ys == {p[2] : p \in TruePixels(o)}
    IN  {SetMin(xs), SetMax(xs)} \X {SetMin(ys), SetMax(ys)}

\* The largest squared distance from the centre to one of the eight corners.
MaxCornerSq(objs, c) ==
    SetMax({SqDist(c[1], c[2], p[1], p[2]) :
                p \in TrueCorners(objs[1]) \cup TrueCorners(objs[2])})

\* C4: the radius is the integer truncation of the largest Euclidean
\* distance from the centre to a bounding-box corner of either mask, and no
\* corner is farther from the centre than radius + 1.
C4_RadiusIsMaxCornerDistance ==
    (ppc # "start" /\ NonEmpty(objects[1]) /\ NonEmpty(objects[2])) =>
        /\ radius = ISqrt(MaxCornerSq(objects, centre))
        /\ MaxCornerSq(objects, centre) <= (radius + 1) * (radius + 1)

\* C8: with a mask of zero true pixels, barycentre ends in an error and
\* radial_line_model_radius returns no radius: the encoding never gets
\* past lines_diameters.
C8_EmptyMaskRejected ==
    \A m \in 1..2 :
        (ppc # "idle" /\ ~NonEmpty(objects[m])) =>
            /\ barycentre(objects[m]).err
            /\ ppc = "start"

\* The positions of a diameter whose point is true in mask o.
Over(line, o) == {k \in 1..Len(line) : line[k] \in TruePixels(o)}

\* The sum of the truncated distances over a set of position pairs.
RECURSIVE PairSum(_, _)
PairSum(line, S) ==
    IF S = {} THEN 0
    ELSE LET q == CHOOSE e \in S : TRUE
         IN  IntDist(line[q[1]], line[q[2]]) + PairSum(line, S \ {q})

\* The force of a diameter when the points of mask a are labelled A and
\* those of mask b that are not in a are labelled B.
LabelledForce(line, a, b) ==
    PairSum(line, {q \in Over(line, a) \X (Over(line, b) \ Over(line, a)) : q[1] < q[2]})

C7_RlmInUnitInterval ==
    ppc \in {"rlm", "done", "ZeroDivisionError"} =>
        \A n \in 1..Len(lines) : \A m \in 1..2 :
            LET h == IF m = 1 THEN histObj1[n] ELSE histObj2[n]
            IN  /\ h[2] = Len(lines[n])
                /\ h[2] >= 1
                /\ 0 <= h[1]
                /\ h[1] <= h[2]
                /\ h[1] = Cardinality(Over(lines[n], objects[m]))

\* C7 witness: a half-line with a point of negative coordinate, a point past
\* the grid and a counted point.
C7_Witness ==
    /\ ppc = "rlm"
    /\ \E n \in 1..Len(lines) :
          /\ \E k \in 1..Len(lines[n]) : lines[n][k][1] < 0 \/ lines[n][k][2] < 0
          /\ histObj1[n][1] >= 1
          /\ histObj1[n][1] < histObj1[n][2]
    /\ \E n \in 1..Len(lines) :
          /\ \E k \in 1..Len(lines[n]) :
                lines[n][k][1] >= Len(objects[1]) \/ lines[n][k][2] >= Len(objects[1][1])
          /\ histObj2[n][1] >= 1

\* The position pairs p < r of a diameter with a point of the second mask
\* at p and, at r, a different point that is in the first mask only.
DistinctPairs(line, objs) ==
    {q \in Over(line, objs[2]) \X (Over(line, objs[1]) \ Over(line, objs[2])) :
        q[1] < q[2] /\ line[q[1]] # line[q[2]]}

\* C12: for a force type other than 0 the logarithmic term is never taken at
\* d = 0: forces does not divide by zero, every accumulated distance is
\* >= 1, and there is one term per pair of distinct positions holding
\* distinct points.
C12_LogTermNeverAtZero ==
    /\ ppc # "ZeroDivisionError"
    /\ (ppc = "done" /\ force_type # 0) =>
           \A n \in 1..Len(diameters) :
               /\ \A k \in 1..Len(force[n]) : force[n][k] >= 1
               /\ Len(force[n]) = Cardinality(DistinctPairs(diameters[n], objects))

\* C12 witness: a diameter with a term of distance 1 (adjacent points) and a
\* point that lies in both masks.
C12_Witness ==
    /\ ppc = "done"
    /\ force_type # 0
    /\ \E n \in 1..Len(diameters) :
          /\ \E k \in 1..Len(force[n]) : force[n][k] = 1
          /\ Over(diameters[n], objects[1]) \cap Over(diameters[n], objects[2]) # {}


----------------------------------------------------------------------------
(* Properties of center_point                                              *)

\* The positions, among the first n points of the walk, of the points that
\* touch hull h.
Touching(n, h) ==
    {k \in 1..n : connected8_check(lin[k][1], lin[k][2], hulls[h])}

\* After `walked` points, hull h has the flag it and the touch point fp that
\* its first touching point gives; without one the flag is down and fp is
\* None, or at the return the barycentre pt.
Recorded(h, it, fp, pt) ==
    IF Touching(walked, h) = {}
    THEN ~it /\ fp = (IF cpc = "done" THEN pt ELSE None)
    ELSE it /\ fp = lin[SetMin(Touching(walked, h))]

Between(v, a, b) == (a <= v /\ v <= b) \/ (b <= v /\ v <= a)

\* C11: all along the walk of the segment from barycentre to barycentre,
\* the touch point of each hull is the first walked point that touches its
\* densified point set; the walk goes on only while a hull is untouched and
\* stops at the point that completes the two, or at the end of the segment;
\* an untouched hull takes its mask's barycentre; the returned centre is
\* the truncated midpoint of the two touch points and each coordinate lies
\* between those of the two barycentres.
C11_FirstTouchMidpoint ==
    /\ cpc \in {"walk", "after", "done"} =>
          /\ Recorded(1, it1, fp1, pt1)
          /\ Recorded(2, it2, fp2, pt2)
          /\ cpc = "walk" => ~(it1 /\ it2)
          /\ cpc # "walk" => ((it1 /\ it2) \/ walked = Len(lin))
          /\ (it1 /\ it2) =>
                walked = SetMax({SetMin(Touching(walked, 1)),
                                 SetMin(Touching(walked, 2))})
    /\ cpc = "done" =>
          \A c \in 1..2 :
              /\ 2 * center[c] <= fp1[c] + fp2[c]
              /\ fp1[c] + fp2[c] <= 2 * center[c] + 1
              /\ Between(center[c], pt1[c], pt2[c])

\* A return after a walk that stopped before the end of the segment, where
\* neither hull was touched by the first point, the two touch points
\* differ, and a later point touched an already recorded hull again.
C11_Witness ==
    /\ cpc = "done"
    /\ walked < Len(lin)
    /\ fp1 # lin[1]
    /\ fp2 # lin[1]
    /\ fp1 # fp2
    /\ Cardinality(Touching(walked, 1)) >= 2 \/ Cardinality(Touching(walked, 2)) >= 2

====
